---- MODULE Spec2Model ----
(***************************************************************************)
(* A model of petl/transform/reductions.py: the grouping reducers          *)
(* (rowreduce, aggregate, mergeduplicates, merge, fold, groupselectmin) as *)
(* lazy views whose generators are resumed one item at a time.             *)
(*                                                                         *)
(* A table is a sequence whose first item is the header (a tuple of field  *)
(* names) and whose other items are the data rows (tuples of values).      *)
(***************************************************************************)
EXTENDS Integers, Sequences, FiniteSets, TLC

VARIABLES
    tables,   \* the source tables handed to the library (one, or two for merge)
    view,     \* the view object built by the last constructor call
    its,      \* the generators obtained from the view by __iter__
    call,     \* the library call that built the view, with its arguments
    prev      \* a finished output kept by the caller to build the next view on

vars == <<tables, view, its, call, prev>>

---------------------------------------------------------------------------
(* Bounds of the model.                                                    *)

\* data rows of a source table of the rowreduce / fold / groupselect runs
MaxRowsReduce == 3
\* data rows of a source table of the mergeduplicates runs
MaxRowsMerge == 3
\* data rows of each of the two tables given to merge
MaxRowsEach == 2
\* data rows of a source table of the multi-aggregate runs
MaxRowsAgg == 2
\* data rows of a source table of the runs that call __setitem__
MaxRowsSet == 2
\* entries that __setitem__ may add to an aggregation mapping
MaxSetItems == 2
\* data rows of a source table of the runs with several generators
MaxRowsIter == 2
\* data rows of a source table of the runs with presorted=True
MaxRowsPresorted == 3
\* data rows of a source table of the mergeduplicates runs over headers
\* with a repeated name
MaxRowsNames == 2
\* generators obtained from one view
NIters == 2

---------------------------------------------------------------------------
(* Python values.  Every value has the same record shape so that any two   *)
(* can be compared.                                                        *)

PyVal(tag, n, s, q) == [tag |-> tag, n |-> n, s |-> s, q |-> q]

None == PyVal("none", 0, {}, <<>>)

PyInt(i) == PyVal("int", i, {}, <<>>)

Tuple(q) == PyVal("tuple", 0, {}, q)

List(q) == PyVal("list", 0, {}, q)

\* class Conflict(frozenset): built from any iterable, no check on its size
Conflict(items) == PyVal("conflict", 0, items, <<>>)

isConflict(v) == v.tag = "conflict"

Range(q) == {q[i] : i \in 1..Len(q)}

\* an index that takes the first position for a field it does not find
Index_OrFirst(hdr, f) ==
    IF \E i \in 1..Len(hdr) : hdr[i] = f
    THEN CHOOSE i \in 1..Len(hdr) : hdr[i] = f /\ \A j \in 1..(i - 1) : hdr[j] # f
    ELSE 1

\* list.index(f): the first position holding f; 0 stands for ValueError
Index(hdr, f) ==
    IF \E i \in 1..Len(hdr) : hdr[i] = f
    THEN CHOOSE i \in 1..Len(hdr) : hdr[i] = f /\ \A j \in 1..(i - 1) : hdr[j] # f
    ELSE 0

Hdr(table) == table[1]

Data(table) == Tail(table)

---------------------------------------------------------------------------
(* Key specifications: a field name, a tuple of field names, a callable.   *)

KeyField(f) == [kind |-> "field", names |-> <<f>>]

KeyFields(fs) == [kind |-> "fields", names |-> fs]

\* the one callable key of the model: lambda row: row[0]
KeyCallable == [kind |-> "callable", names |-> <<>>]

\* a field beyond the end of a short row reads as the missing value
ItemOrNone(row, i) == IF i >= 1 /\ i <= Len(row) THEN row[i] ELSE None

\* the key value rowgroupby and sort extract from a data row
getkey(hdr, key, row) ==
    CASE key.kind = "field" -> ItemOrNone(row, Index(hdr, key.names[1]))
      [] key.kind = "fields" ->
            Tuple([j \in 1..Len(key.names) |-> ItemOrNone(row, Index(hdr, key.names[j]))])
      [] OTHER -> ItemOrNone(row, 1)

\* the order sort puts key values in: None first, numbers by size, tuples
\* element by element
RECURSIVE LessVal(_, _)
LessVal(a, b) ==
    CASE a.tag = "none" -> b.tag # "none"
      [] a.tag = "int" -> b.tag = "tuple" \/ (b.tag = "int" /\ a.n < b.n)
      [] a.tag = "tuple" ->
            /\ b.tag = "tuple"
            /\ \E i \in 1..Len(a.q) :
                  /\ i <= Len(b.q)
                  /\ \A j \in 1..(i - 1) : a.q[j] = b.q[j]
                  /\ LessVal(a.q[i], b.q[i])
      [] OTHER -> FALSE

Perms(n) == {p \in [1..n -> 1..n] : \A i, j \in 1..n : p[i] = p[j] => i = j}

\* sort(table, key, reverse): the tables a key-ordered sort may return; the
\* order among rows of equal key is left open
sort(table, key, reverse) ==
    LET rows == Data(table)
        n == Len(rows)
        k(r) == getkey(Hdr(table), key, r)
        ordered(p) == \A i \in 1..(n - 1) :
                         IF reverse THEN ~LessVal(k(rows[p[i]]), k(rows[p[i + 1]]))
                                    ELSE ~LessVal(k(rows[p[i + 1]]), k(rows[p[i]]))
    IN {<<Hdr(table)>> \o [i \in 1..n |-> rows[p[i]]] : p \in {p \in Perms(n) : ordered(p)}}

\* rowgroupby: the length of the run of rows of one key that starts at
\* rows[pos + 1]
RunLength(hdr, key, rows, pos) ==
    LET same(j) == getkey(hdr, key, rows[j]) = getkey(hdr, key, rows[pos + 1])
    IN CHOOSE m \in 1..(Len(rows) - pos) :
          /\ \A j \in (pos + 1)..(pos + m) : same(j)
          /\ (pos + m < Len(rows) => ~same(pos + m + 1))

\* rowgroupby(source, key): the next (key, rows) pair after pos rows
rowgroupby(hdr, key, rows, pos) ==
    LET m == RunLength(hdr, key, rows, pos)
    IN [k |-> getkey(hdr, key, rows[pos + 1]), rows |-> SubSeq(rows, pos + 1, pos + m)]

---------------------------------------------------------------------------
(* Exceptions, value specifications, reducers and fold functions.          *)

\* the outcome of an expression that raised
Raised == PyVal("error", 0, {}, <<>>)

isRaised(v) == v.tag = "error"

NoValue == [kind |-> "none", names |-> <<>>]

ValueField(f) == [kind |-> "field", names |-> <<f>>]

ValueFields(fs) == [kind |-> "fields", names |-> fs]

NoFields == [isnone |-> TRUE, names |-> <<>>]

Fields(fs) == [isnone |-> FALSE, names |-> fs]

\* operator.itemgetter(*idxs)(row): the item itself for one index, a tuple
\* for several, IndexError on a row too short (or on a field not found)
itemgetter(idxs, row) ==
    IF \E j \in 1..Len(idxs) : idxs[j] < 1 \/ idxs[j] > Len(row) THEN Raised
    ELSE IF Len(idxs) = 1 THEN row[idxs[1]]
    ELSE Tuple([j \in 1..Len(idxs) |-> row[idxs[j]]])

\* rowgroupby(..., value): what a group holds, whole rows or projected values
getval(hdr, value, row) ==
    IF value.kind = "none" THEN Tuple(row)
    ELSE itemgetter([j \in 1..Len(value.names) |-> Index(hdr, value.names[j])], row)

\* a + b of Python: numbers add, tuples concatenate, anything else raises
add(a, b) ==
    CASE a.tag = "int" /\ b.tag = "int" -> PyInt(a.n + b.n)
      [] a.tag = "tuple" /\ b.tag = "tuple" -> Tuple(a.q \o b.q)
      [] OTHER -> Raised

\* a - b of Python: defined on numbers only
sub(a, b) ==
    IF a.tag = "int" /\ b.tag = "int" THEN PyInt(a.n - b.n) ELSE Raised

\* the binary functions handed to fold
apply(f, a, b) == IF f = "add" THEN add(a, b) ELSE sub(a, b)

\* reduce(f, grp) with no initial value: the first item starts the
\* accumulator, each later item is folded in from the left; n counts the
\* calls of f
RECURSIVE reduceFrom(_, _, _, _)
reduceFrom(f, q, acc, i) ==
    IF i > Len(q) \/ isRaised(acc.v) THEN acc
    ELSE reduceFrom(f, q, [v |-> apply(f, acc.v, q[i]), n |-> acc.n + 1], i + 1)

\* reduce started from the last item and folded towards the first
RECURSIVE reduceBack(_, _, _, _)
reduceBack(f, q, acc, i) ==
    IF i < 1 \/ isRaised(acc.v) THEN acc
    ELSE reduceBack(f, q, [v |-> apply(f, q[i], acc.v), n |-> acc.n + 1], i - 1)

reduce_FromRight(f, q) == reduceBack(f, q, [v |-> q[Len(q)], n |-> 0], Len(q) - 1)

reduce(f, q) == reduceFrom(f, q, [v |-> q[1], n |-> 0], 2)

\* sum(iterable) of Python
RECURSIVE sumFrom(_, _, _)
sumFrom(q, acc, i) ==
    IF i > Len(q) \/ isRaised(acc) THEN acc
    ELSE sumFrom(q, IF q[i].tag = "int" THEN add(acc, q[i]) ELSE Raised, i + 1)

sum(q) == sumFrom(q, PyInt(0), 1)

\* the docstring's reducer: lambda key, rows: [key, sum(row[1] for row in rows)]
sumbar(key, rows) ==
    LET s == sum([j \in 1..Len(rows) |-> itemgetter(<<2>>, rows[j])])
    IN IF isRaised(s) THEN <<Raised>> ELSE <<key, s>>

\* a reducer that returns the last row of the group
firstrow_Last(key, rows) == rows[Len(rows)]

\* groupselectfirst's reducer: lambda k, rows: next(rows)
\* (line 346; rowgroupby never hands out an empty group)
firstrow(key, rows) == rows[1]

reducerCall(reducer, key, rows) ==
    IF reducer = "first" THEN firstrow(key, rows) ELSE sumbar(key, rows)

\* whether the reducer reads its whole group (sumbar) or one row (next)
reducerReadsAll(reducer) == reducer # "first"

rowRaised(row) == \E j \in 1..Len(row) : isRaised(row[j])

---------------------------------------------------------------------------
(* Views and generators.                                                   *)

NoView ==
    [kind |-> "none", source |-> <<>>, presorted |-> FALSE, key |-> KeyCallable,
     reducer |-> "", fields |-> NoFields, aggregation |-> <<>>, value |-> NoValue,
     missing |-> None, f |-> ""]

\* no generator yet.  pc is the generator's position, pos the data rows of
\* the source its groups have used, out the items it has yielded, nread the
\* items it has read from the source, agg its copy of the aggregation
\* mapping, calls the keys handed to the reducer, fcalls the calls of the
\* fold function, atiter the __setitem__ calls made before iter(), mapiter
\* the view's mapping when iter() was called, mapfirst the view's mapping
\* when next() was first called, held the list the generator has made of a
\* group's rows
Idle ==
    [pc |-> "idle", pos |-> 0, out |-> <<>>, nread |-> 0, agg |-> <<>>,
     calls |-> <<>>, fcalls |-> 0, atiter |-> <<>>, mapiter |-> <<>>,
     mapfirst |-> <<>>, held |-> <<>>]

\* a generator just created: its body has not started
Created == [Idle EXCEPT !.pc = "new"]

\* how many items of the source a generator has read once the group ending
\* at row `upto` was read to its end: the header, the rows, and the first row
\* of the next group when there is one
ReadThrough(rows, upto) == 1 + (IF upto < Len(rows) THEN upto + 1 ELSE upto)

\* a list made of every data row of the source instead of the group's
listgroup_WholeTable(rows, g) == rows

\* rows = list(rows), grp = list(grp): the list made of the rows of group g
\* of the source's data rows
listgroup(rows, g) == g.rows

\* RowReduceView.__init__ without its sort
RowReduceView_NoSort(source, key, reducer, fields, presorted) ==
    {[NoView EXCEPT !.kind = "rowreduce", !.source = source, !.presorted = presorted,
                    !.key = key, !.reducer = reducer, !.fields = fields]}

\* RowReduceView.__init__: the source is sorted unless presorted
RowReduceView(source, key, reducer, fields, presorted) ==
    {[NoView EXCEPT !.kind = "rowreduce", !.source = s, !.presorted = presorted,
                    !.key = key, !.reducer = reducer, !.fields = fields] :
        s \in IF presorted THEN {source} ELSE sort(source, key, FALSE)}

rowreduce(table, key, reducer, fields, presorted) ==
    RowReduceView(table, key, reducer, fields, presorted)

\* iterrowreduce, resumed once from state st
iterrowreduce(source, key, reducer, fields, st) ==
    LET rows == Data(source)
    IN IF st.pc = "new"
       THEN \* the header: the given fields, or the one peeked from the source
            [st EXCEPT !.pc = "run",
                       !.out = <<IF fields.isnone THEN Hdr(source) ELSE fields.names>>,
                       !.nread = IF fields.isnone THEN 1 ELSE 0]
       ELSE IF st.pos = Len(rows)
       THEN [st EXCEPT !.pc = "done", !.nread = 1 + Len(rows)]
       ELSE LET g == rowgroupby(Hdr(source), key, rows, st.pos)
                row == reducerCall(reducer, g.k, g.rows)
                pos == st.pos + Len(g.rows)
            IN IF rowRaised(row)
               THEN [st EXCEPT !.pc = "error", !.calls = Append(@, g.k)]
               ELSE [st EXCEPT !.out = Append(@, row), !.pos = pos,
                               !.calls = Append(@, g.k),
                               !.nread = IF reducerReadsAll(reducer)
                                         THEN ReadThrough(rows, pos)
                                         ELSE 1 + st.pos + 1]

\* groupselectfirst trusting its input to be sorted by the key
groupselectfirst_Presorted(table, key) == rowreduce(table, key, "first", NoFields, TRUE)

groupselectfirst(table, key) == rowreduce(table, key, "first", NoFields, FALSE)

groupselectmin(table, key, value) ==
    UNION {groupselectfirst(s, key) : s \in sort(table, KeyField(value), FALSE)}

groupselectmax(table, key, value) ==
    UNION {groupselectfirst(s, key) : s \in sort(table, KeyField(value), TRUE)}

\* FoldView.__init__ sorting its source whatever presorted says
FoldView_AlwaysSort(table, key, f, value, presorted) ==
    {[NoView EXCEPT !.kind = "fold", !.source = s, !.presorted = presorted,
                    !.key = key, !.f = f, !.value = value] :
        s \in sort(table, key, FALSE)}

\* FoldView.__init__
FoldView(table, key, f, value, presorted) ==
    {[NoView EXCEPT !.kind = "fold", !.source = s, !.presorted = presorted,
                    !.key = key, !.f = f, !.value = value] :
        s \in IF presorted THEN {table} ELSE sort(table, key, FALSE)}

fold(table, key, f, value, presorted) == FoldView(table, key, f, value, presorted)

\* iterfold, resumed once from state st
iterfold(table, key, f, value, st) ==
    LET rows == Data(table)
    IN IF st.pc = "new"
       THEN [st EXCEPT !.pc = "run", !.out = << <<"key", "value">> >>]
       ELSE IF st.pos = Len(rows)
       THEN [st EXCEPT !.pc = "done", !.nread = 1 + Len(rows)]
       ELSE LET g == rowgroupby(Hdr(table), key, rows, st.pos)
                grp == [j \in 1..Len(g.rows) |-> getval(Hdr(table), value, g.rows[j])]
                r == IF \E j \in 1..Len(grp) : isRaised(grp[j])
                     THEN [v |-> Raised, n |-> 0]
                     ELSE reduce(f, grp)
                pos == st.pos + Len(g.rows)
            IN IF isRaised(r.v)
               THEN [st EXCEPT !.pc = "error", !.fcalls = @ + r.n]
               ELSE [st EXCEPT !.out = Append(@, <<g.k, r.v>>), !.pos = pos,
                               !.fcalls = @ + r.n,
                               !.nread = ReadThrough(rows, pos)]

---------------------------------------------------------------------------
(* aggregate: aggregation descriptors, the simple and the multi view.      *)

\* the parts a descriptor is made of: a callable, a field name, a tuple of
\* field names, None
Fn(f) == [t |-> "fn", names |-> <<f>>]

Fld(f) == [t |-> "fld", names |-> <<f>>]

Flds(fs) == [t |-> "flds", names |-> fs]

NoSrc == [t |-> "none", names |-> <<>>]

\* a descriptor: a bare callable, a bare field name, or a list/tuple of parts
DescCallable(f) == [shape |-> "callable", items |-> <<Fn(f)>>]

DescString(f) == [shape |-> "string", items |-> <<Fld(f)>>]

DescSeq(items) == [shape |-> "seq", items |-> items]

Entry(name, desc) == [name |-> name, desc |-> desc]

\* mapping[name] = desc on an ordered mapping: a known name keeps its
\* place, a new one goes last
setitem(mapping, name, desc) ==
    IF \E j \in 1..Len(mapping) : mapping[j].name = name
    THEN [j \in 1..Len(mapping) |->
             IF mapping[j].name = name THEN Entry(name, desc) ELSE mapping[j]]
    ELSE Append(mapping, Entry(name, desc))

\* the aggregation argument: None, a list of (name, part, ...) tuples, or a
\* mapping
AggNone == [kind |-> "None", entries |-> <<>>]

AggList(tuples) == [kind |-> "list", entries |-> tuples]

AggDict(mapping) == [kind |-> "dict", entries |-> mapping]

\* for t in aggregation: self.aggregation[t[0]] = t[1:]
RECURSIVE fromTuples(_, _, _)
fromTuples(tuples, n, acc) ==
    IF n > Len(tuples) THEN acc
    ELSE fromTuples(tuples, n + 1,
                    setitem(acc, tuples[n].name, DescSeq(tuples[n].rest)))

\* MultiAggregateView.__init__
MultiAggregateView(source, key, aggregation, presorted) ==
    {[NoView EXCEPT !.kind = "multiaggregate", !.source = s, !.presorted = presorted,
                    !.key = key,
                    !.aggregation = IF aggregation.kind = "list"
                                    THEN fromTuples(aggregation.entries, 1, <<>>)
                                    ELSE aggregation.entries] :
        s \in IF presorted THEN {source} ELSE sort(source, key, FALSE)}

\* a __setitem__ that leaves the view's mapping as it is
MultiAggregateView_setitem_Lost(v, name, desc) == v

\* MultiAggregateView.__setitem__
MultiAggregateView_setitem(v, name, desc) ==
    [v EXCEPT !.aggregation = setitem(@, name, desc)]

\* "normalise aggregators": a descriptor as a (source, function) pair, or
\* the 'invalid aggregation' exception
normalise(desc) ==
    CASE desc.shape = "callable" ->
            [ok |-> TRUE, src |-> NoSrc, fn |-> desc.items[1].names[1]]
      [] desc.shape = "string" ->
            [ok |-> TRUE, src |-> desc.items[1], fn |-> "list"]
      [] desc.shape = "seq" /\ Len(desc.items) = 1 /\ desc.items[1].t = "fld" ->
            [ok |-> TRUE, src |-> desc.items[1], fn |-> "list"]
      [] desc.shape = "seq" /\ Len(desc.items) = 1 /\ desc.items[1].t = "fn" ->
            [ok |-> TRUE, src |-> NoSrc, fn |-> desc.items[1].names[1]]
      [] desc.shape = "seq" /\ Len(desc.items) = 2 ->
            [ok |-> TRUE, src |-> desc.items[1], fn |-> desc.items[2].names[1]]
      [] OTHER -> [ok |-> FALSE, src |-> NoSrc, fn |-> ""]

\* the least (greatest) item in the order of LessVal, the first of equals
least(q) == q[CHOOSE i \in 1..Len(q) :
                /\ \A j \in 1..Len(q) : ~LessVal(q[j], q[i])
                /\ \A j \in 1..(i - 1) : LessVal(q[i], q[j])]

greatest(q) == q[CHOOSE i \in 1..Len(q) :
                   /\ \A j \in 1..Len(q) : ~LessVal(q[i], q[j])
                   /\ \A j \in 1..(i - 1) : LessVal(q[j], q[i])]

\* aggfun(items): len, list, sum, min or max applied to a list (the group's
\* rows) or to a generator (values drawn from them); len of a generator
\* raises TypeError
aggcall(fn, items, isgenerator) ==
    CASE fn = "len" -> IF isgenerator THEN Raised ELSE PyInt(Len(items))
      [] \E j \in 1..Len(items) : isRaised(items[j]) -> Raised
      [] fn = "list" -> List(items)
      [] fn = "sum" -> sum(items)
      [] fn = "min" -> least(items)
      [] OTHER -> greatest(items)

\* one aggregation of one group: aggfun over the rows, over the tuples of
\* several source fields, or over the values of one
aggval(hdr, rows, src, fn) ==
    CASE src.t = "none" -> aggcall(fn, [j \in 1..Len(rows) |-> Tuple(rows[j])], FALSE)
      [] src.t = "flds" ->
            LET idxs == [j \in 1..Len(src.names) |-> Index(hdr, src.names[j])]
            IN IF Len(idxs) = 0 \/ \E j \in 1..Len(idxs) : idxs[j] = 0 THEN Raised
               ELSE aggcall(fn, [j \in 1..Len(rows) |-> itemgetter(idxs, rows[j])], TRUE)
      [] OTHER ->
            LET idx == Index(hdr, src.names[1])
            IN IF idx = 0 THEN Raised
               ELSE aggcall(fn, [j \in 1..Len(rows) |-> itemgetter(<<idx>>, rows[j])], TRUE)

\* the output header's key part
keyheader(key) ==
    CASE key.kind = "fields" -> key.names
      [] key.kind = "callable" -> <<"key">>
      [] OTHER -> key.names

\* the view's mapping as it is now, normalised, instead of the copy
inforce_Live(aggregation, st) ==
    [j \in 1..Len(aggregation) |->
        [name |-> aggregation[j].name, desc |-> aggregation[j].desc,
         norm |-> normalise(aggregation[j].desc)]]

\* the mapping the loops over the header and the groups read: the local
\* name aggregation, bound to the copy taken when the body started
inforce(aggregation, st) == st.agg

\* itermultiaggregate, resumed once from state st; `aggregation` is the
\* view's mapping as it is when the generator is resumed
itermultiaggregate(source, key, aggregation, st) ==
    LET hdr == Hdr(source)
        rows == Data(source)
    IN IF st.pc = "new"
       THEN LET copy == [j \in 1..Len(aggregation) |->
                            [name |-> aggregation[j].name,
                             desc |-> aggregation[j].desc,
                             norm |-> normalise(aggregation[j].desc)]]
            IN IF \E j \in 1..Len(copy) : ~copy[j].norm.ok
               THEN [st EXCEPT !.pc = "error", !.nread = 1]
               ELSE [st EXCEPT !.pc = "run", !.nread = 1, !.agg = copy,
                               !.out = <<keyheader(key)
                                         \o [j \in 1..Len(copy) |-> copy[j].name]>>]
       ELSE IF st.pos = Len(rows)
       THEN [st EXCEPT !.pc = "done", !.nread = 1 + Len(rows)]
       ELSE LET g == rowgroupby(hdr, key, rows, st.pos)
                outrow == IF key.kind = "fields" THEN g.k.q ELSE <<g.k>>
                agg == inforce(aggregation, st)
                vals == [j \in 1..Len(agg) |->
                            aggval(hdr, g.rows, agg[j].norm.src, agg[j].norm.fn)]
                pos == st.pos + Len(g.rows)
            IN IF rowRaised(vals)
               THEN [st EXCEPT !.pc = "error", !.nread = ReadThrough(rows, pos),
                               !.held = listgroup(rows, g)]
               ELSE [st EXCEPT !.out = Append(@, outrow \o vals), !.pos = pos,
                               !.nread = ReadThrough(rows, pos),
                               !.held = listgroup(rows, g)]

\* SimpleAggregateView.__init__
SimpleAggregateView(table, key, aggregation, value, presorted) ==
    {[NoView EXCEPT !.kind = "simpleaggregate", !.source = s, !.presorted = presorted,
                    !.key = key, !.f = aggregation, !.value = value] :
        s \in IF presorted THEN {table} ELSE sort(table, key, FALSE)}

\* itersimpleaggregate, resumed once from state st; len is replaced by a
\* count of the group's items
itersimpleaggregate(table, key, aggregation, value, st) ==
    LET rows == Data(table)
    IN IF st.pc = "new"
       THEN [st EXCEPT !.pc = "run", !.out = <<keyheader(key) \o <<"value">> >>]
       ELSE IF st.pos = Len(rows)
       THEN [st EXCEPT !.pc = "done", !.nread = 1 + Len(rows)]
       ELSE LET g == rowgroupby(Hdr(table), key, rows, st.pos)
                grp == [j \in 1..Len(g.rows) |-> getval(Hdr(table), value, g.rows[j])]
                v == IF \E j \in 1..Len(grp) : isRaised(grp[j]) THEN Raised
                     ELSE aggcall(aggregation, grp, FALSE)
                outrow == IF key.kind = "fields" THEN g.k.q ELSE <<g.k>>
                pos == st.pos + Len(g.rows)
            IN IF isRaised(v)
               THEN [st EXCEPT !.pc = "error", !.nread = ReadThrough(rows, pos)]
               ELSE [st EXCEPT !.out = Append(@, Append(outrow, v)), !.pos = pos,
                               !.nread = ReadThrough(rows, pos)]

\* aggregate(table, key, aggregation): a callable makes the simple view;
\* None, a list, a tuple or a dict the multi view
aggregate(table, key, aggregation, value, presorted) ==
    IF aggregation.kind = "callable"
    THEN SimpleAggregateView(table, key, aggregation.entries[1], value, presorted)
    ELSE MultiAggregateView(table, key, aggregation, presorted)

AggCallable(f) == [kind |-> "callable", entries |-> <<f>>]

---------------------------------------------------------------------------
(* mergeduplicates and merge.                                              *)

\* MergeDuplicatesView.__init__
MergeDuplicatesView(table, key, missing, presorted) ==
    {[NoView EXCEPT !.kind = "mergeduplicates", !.source = s, !.presorted = presorted,
                    !.key = key, !.missing = missing] :
        s \in IF presorted THEN {table} ELSE sort(table, key, FALSE)}

mergeduplicates(table, key, missing, presorted) ==
    MergeDuplicatesView(table, key, missing, presorted)

\* valflds: the header fields that are no key field, in header order
valflds(flds, key) == SelectSeq(flds, LAMBDA f : f \notin Range(key.names))

\* valfldidxs: for each of them, flds.index(f)
valfldidxs(flds, key) ==
    [j \in 1..Len(valflds(flds, key)) |-> Index(flds, valflds(flds, key)[j])]

\* mergedvals that does not leave out the missing value
mergedvals_KeepMissing(grp, i, missing) ==
    {grp[r][i] : r \in {r \in 1..Len(grp) : Len(grp[r]) >= i}}

\* mergedvals, one field: the values the group's rows hold at index i, rows
\* too short and missing values left out
mergedvals(grp, i, missing) ==
    {grp[r][i] : r \in {r \in 1..Len(grp) : Len(grp[r]) >= i /\ grp[r][i] # missing}}

\* normedvals with a Conflict for every non-empty set of values
normedvals_ConflictOfOne(vals, missing) ==
    IF Cardinality(vals) = 0 THEN missing ELSE Conflict(vals)

\* normedvals that picks one of several values instead of reporting them
normedvals_PickOne(vals, missing) ==
    IF Cardinality(vals) = 0 THEN missing ELSE CHOOSE v \in vals : TRUE

\* normedvals, one field: the one value, the missing value, or a Conflict
normedvals(vals, missing) ==
    IF Cardinality(vals) = 1 THEN CHOOSE v \in vals : TRUE
    ELSE IF Cardinality(vals) = 0 THEN missing
    ELSE Conflict(vals)

\* itermergeduplicates, resumed once from state st
itermergeduplicates(table, key, missing, st) ==
    LET flds == Hdr(table)
        rows == Data(table)
        idxs == valfldidxs(flds, key)
    IN IF st.pc = "new"
       THEN [st EXCEPT !.pc = "run", !.nread = 1,
                       !.out = <<key.names \o valflds(flds, key)>>]
       ELSE IF st.pos = Len(rows)
       THEN [st EXCEPT !.pc = "done", !.nread = 1 + Len(rows)]
       ELSE LET g == rowgroupby(flds, key, rows, st.pos)
                outrow == IF key.kind = "field" THEN <<g.k>> ELSE g.k.q
                normed == [j \in 1..Len(idxs) |->
                              normedvals(mergedvals(g.rows, idxs[j], missing), missing)]
                pos == st.pos + Len(g.rows)
            IN [st EXCEPT !.out = Append(@, outrow \o normed), !.pos = pos,
                          !.nread = ReadThrough(rows, pos),
                          !.held = listgroup(rows, g)]

\* the header mergesort gives its output: every field of the sources, in
\* the order of first appearance
RECURSIVE mergedHeader(_, _, _)
mergedHeader(srcs, n, acc) ==
    IF n > Len(srcs) THEN acc
    ELSE mergedHeader(srcs, n + 1,
                      acc \o SelectSeq(Hdr(srcs[n]), LAMBDA f : f \notin Range(acc)))

\* a row of a source laid out under the merged header, None where the
\* source has no such field
standardise(hdr, outhdr, row) ==
    [j \in 1..Len(outhdr) |-> ItemOrNone(row, Index(hdr, outhdr[j]))]

RECURSIVE standardisedRows(_, _, _)
standardisedRows(srcs, outhdr, n) ==
    IF n > Len(srcs) THEN <<>>
    ELSE [j \in 1..Len(Data(srcs[n])) |-> standardise(Hdr(srcs[n]), outhdr, Data(srcs[n])[j])]
         \o standardisedRows(srcs, outhdr, n + 1)

\* cat: the sources one after the other under the merged header
concatenated(srcs) ==
    LET outhdr == mergedHeader(srcs, 1, <<>>)
    IN <<outhdr>> \o standardisedRows(srcs, outhdr, 1)

\* mergesort(*tables, key=key): one key-ordered sequence of all their rows
mergesort(srcs, key) == sort(concatenated(srcs), key, FALSE)

\* merge without the merge-sort: the tables are only concatenated
merge_Unsorted(srcs, key) == mergeduplicates(concatenated(srcs), key, None, TRUE)

\* merge(*tables, key=key)
merge(srcs, key) ==
    UNION {mergeduplicates(t1, key, None, TRUE) : t1 \in mergesort(srcs, key)}

---------------------------------------------------------------------------
(* __iter__ and next().                                                    *)

\* a generator that takes up the source where the view's generators have
\* got to, as if the view kept one iterator of its source for all of them
generator_SharedSource(v) ==
    LET started == {i \in 1..NIters : its[i].pc \in {"run", "done"}}
    IN IF started = {} THEN Created
       ELSE LET far == CHOOSE i \in started : \A j \in started : its[j].pos <= its[i].pos
            IN [Created EXCEPT !.pos = its[far].pos]

\* __iter__ of every view: a new generator function call over the view's
\* attributes; the generator has its own position and holds none of the
\* view's state but the references passed to it
generator(v) == Created

\* next() on a generator of view v in state st
resume(v, st) ==
    CASE v.kind = "rowreduce" -> iterrowreduce(v.source, v.key, v.reducer, v.fields, st)
      [] v.kind = "simpleaggregate" ->
            itersimpleaggregate(v.source, v.key, v.f, v.value, st)
      [] v.kind = "multiaggregate" -> itermultiaggregate(v.source, v.key, v.aggregation, st)
      [] v.kind = "mergeduplicates" -> itermergeduplicates(v.source, v.key, v.missing, st)
      [] OTHER -> iterfold(v.source, v.key, v.f, v.value, st)

---------------------------------------------------------------------------
(* The caller's steps shared by every run.                                 *)

\* the call that built the view, and the names __setitem__ was called with
\* since
NoCall == [fn |-> "none", key |-> KeyCallable, value |-> "", sets |-> <<>>]

Call(fn, key, value) == [fn |-> fn, key |-> key, value |-> value, sets |-> <<>>]

NoIters == [i \in 1..NIters |-> Idle]

\* iter(view): __iter__ hands out a new generator; nothing runs yet
Iter(i) ==
    /\ view.kind # "none"
    /\ its[i].pc = "idle"
    /\ its' = [its EXCEPT ![i] = [generator(view) EXCEPT !.atiter = call.sets,
                                                        !.mapiter = view.aggregation]]
    /\ UNCHANGED <<tables, view, call, prev>>

Running(i) == its[i].pc \in {"new", "run"}

\* next() on a generator of a RowReduceView
NextRowReduce(i) ==
    /\ view.kind = "rowreduce"
    /\ Running(i)
    /\ its' = [its EXCEPT ![i] =
                  iterrowreduce(view.source, view.key, view.reducer, view.fields, @)]
    /\ UNCHANGED <<tables, view, call, prev>>

\* next() on a generator of a FoldView
NextFold(i) ==
    /\ view.kind = "fold"
    /\ Running(i)
    /\ its' = [its EXCEPT ![i] = iterfold(view.source, view.key, view.f, view.value, @)]
    /\ UNCHANGED <<tables, view, call, prev>>

\* next() on a generator of a MergeDuplicatesView
NextMergeDuplicates(i) ==
    /\ view.kind = "mergeduplicates"
    /\ Running(i)
    /\ its' = [its EXCEPT ![i] =
                  itermergeduplicates(view.source, view.key, view.missing, @)]
    /\ UNCHANGED <<tables, view, call, prev>>

\* next() on a generator of a MultiAggregateView
NextMultiAggregate(i) ==
    /\ view.kind = "multiaggregate"
    /\ Running(i)
    /\ its' = [its EXCEPT ![i] =
                  [itermultiaggregate(view.source, view.key, view.aggregation, @)
                      EXCEPT !.mapfirst = IF its[i].pc = "new" THEN view.aggregation
                                          ELSE @]]
    /\ UNCHANGED <<tables, view, call, prev>>

\* next() on a generator of a SimpleAggregateView
NextSimpleAggregate(i) ==
    /\ view.kind = "simpleaggregate"
    /\ Running(i)
    /\ its' = [its EXCEPT ![i] =
                  itersimpleaggregate(view.source, view.key, view.f, view.value, @)]
    /\ UNCHANGED <<tables, view, call, prev>>

\* view[name] = desc
SetItem(name, desc) ==
    /\ view.kind = "multiaggregate"
    /\ Len(call.sets) < MaxSetItems
    /\ view' = MultiAggregateView_setitem(view, name, desc)
    /\ call' = [call EXCEPT !.sets = Append(@, name)]
    /\ UNCHANGED <<tables, its, prev>>

---------------------------------------------------------------------------
(* Runs of rowreduce, groupselectfirst/min/max and fold over one table.    *)

ReduceHeader == <<"foo", "bar", "baz">>

ReduceRows == {<<PyInt(a), PyInt(b), PyInt(c)>> : a \in 1..2, b \in 1..2, c \in 1..2}

SeqsUpTo(S, n) == UNION {[1..m -> S] : m \in 0..n}

ReduceTables == {<<ReduceHeader>> \o rows : rows \in SeqsUpTo(ReduceRows, MaxRowsReduce)}

ReduceKeys == {KeyField("foo"), KeyFields(<<"foo", "bar">>)}

InitReduce ==
    /\ tables \in {<<t>> : t \in ReduceTables}
    /\ view = NoView
    /\ its = NoIters
    /\ call = NoCall
    /\ prev = <<>>

CallRowReduce ==
    /\ view.kind = "none"
    /\ \E key \in ReduceKeys, fields \in {NoFields, Fields(<<"k", "barsum">>)},
          presorted \in BOOLEAN :
          /\ view' \in rowreduce(tables[1], key, "sumbar", fields, presorted)
          /\ call' = Call("rowreduce", key, "")
    /\ UNCHANGED <<tables, its, prev>>

CallGroupSelectFirst ==
    /\ view.kind = "none"
    /\ \E key \in ReduceKeys :
          /\ view' \in groupselectfirst(tables[1], key)
          /\ call' = Call("groupselectfirst", key, "")
    /\ UNCHANGED <<tables, its, prev>>

CallGroupSelectMin ==
    /\ view.kind = "none"
    /\ \E value \in {"bar"} :
          /\ view' \in groupselectmin(tables[1], KeyField("foo"), value)
          /\ call' = Call("groupselectmin", KeyField("foo"), value)
    /\ UNCHANGED <<tables, its, prev>>

CallGroupSelectMax ==
    /\ view.kind = "none"
    /\ \E value \in {"bar"} :
          /\ view' \in groupselectmax(tables[1], KeyField("foo"), value)
          /\ call' = Call("groupselectmax", KeyField("foo"), value)
    /\ UNCHANGED <<tables, its, prev>>

CallFold ==
    /\ view.kind = "none"
    /\ \E f \in {"add", "sub"}, value \in {NoValue, ValueField("bar")},
          presorted \in BOOLEAN :
          /\ view' \in fold(tables[1], KeyField("foo"), f, value, presorted)
          /\ call' = Call("fold", KeyField("foo"), "")
    /\ UNCHANGED <<tables, its, prev>>

NextReduce ==
    \/ CallRowReduce
    \/ CallGroupSelectFirst
    \/ CallGroupSelectMin
    \/ CallGroupSelectMax
    \/ CallFold
    \/ Iter(1)
    \/ NextRowReduce(1)
    \/ NextFold(1)

SpecReduce == InitReduce /\ [][NextReduce]_vars

---------------------------------------------------------------------------
(* Runs of mergeduplicates over one table, of mergeduplicates over its     *)
(* own output, and of merge over two tables.                               *)

MergeHeader == <<"foo", "bar", "baz">>

\* rows with missing values, with values that differ, and rows too short
MergeRows ==
    UNION {{<<PyInt(k), PyInt(1), None>>, <<PyInt(k), PyInt(2), PyInt(2)>>,
            <<PyInt(k), None, PyInt(2)>>, <<PyInt(k), PyInt(2), PyInt(1)>>,
            <<PyInt(k), PyInt(1)>>} : k \in 1..2}

MergeTables == {<<MergeHeader>> \o rows : rows \in SeqsUpTo(MergeRows, MaxRowsMerge)}

\* the (key, missing) pairs of the runs
MergeArgs ==
    {<<KeyField("foo"), None>>, <<KeyField("foo"), PyInt(1)>>,
     <<KeyField("bar"), None>>, <<KeyFields(<<"foo", "bar">>), None>>}

LeftRows == {<<PyInt(k), v>> : k \in 1..2, v \in {None, PyInt(1)}}

RightRows == {<<PyInt(k), v>> : k \in 1..2, v \in {None, PyInt(1), PyInt(2)}}

LeftTables == {<<<<"foo", "bar">>>> \o rows : rows \in SeqsUpTo(LeftRows, MaxRowsEach)}

RightTables ==
    {<<h>> \o rows : h \in {<<"foo", "bar">>, <<"foo", "baz">>},
                     rows \in SeqsUpTo(RightRows, MaxRowsEach)}

InitMerge ==
    /\ tables \in {<<t>> : t \in MergeTables} \cup (LeftTables \X RightTables)
    /\ view = NoView
    /\ its = NoIters
    /\ call = NoCall
    /\ prev = <<>>

CallMergeDuplicates ==
    /\ view.kind = "none"
    /\ Len(tables) = 1
    /\ \E a \in MergeArgs, presorted \in BOOLEAN :
          /\ view' \in mergeduplicates(tables[1], a[1], a[2], presorted)
          /\ call' = Call("mergeduplicates", a[1], "")
    /\ UNCHANGED <<tables, its, prev>>

\* the caller merges the finished output once more, with the same arguments
CallMergeDuplicatesAgain ==
    /\ call.fn = "mergeduplicates"
    /\ its[1].pc = "done"
    /\ view' \in mergeduplicates(its[1].out, view.key, view.missing, view.presorted)
    /\ call' = Call("mergeduplicates again", view.key, "")
    /\ prev' = its[1].out
    /\ its' = NoIters
    /\ UNCHANGED tables

CallMerge ==
    /\ view.kind = "none"
    /\ Len(tables) = 2
    /\ view' \in merge(tables, KeyField("foo"))
    /\ call' = Call("merge", KeyField("foo"), "")
    /\ UNCHANGED <<tables, its, prev>>

NextMerge ==
    \/ CallMergeDuplicates
    \/ CallMergeDuplicatesAgain
    \/ CallMerge
    \/ Iter(1)
    \/ NextMergeDuplicates(1)

SpecMerge == InitMerge /\ [][NextMerge]_vars

---------------------------------------------------------------------------
(* Runs of the multi-aggregate view with a mapping fixed at construction.  *)

AggHeader == <<"foo", "bar", "baz">>

\* full rows, and rows too short to have 'baz'
AggRows ==
    {<<PyInt(k), PyInt(b), PyInt(3)>> : k \in 1..2, b \in 1..2}
        \cup {<<PyInt(k), PyInt(1)>> : k \in 1..2}

AggTables == {<<AggHeader>> \o rows : rows \in SeqsUpTo(AggRows, MaxRowsAgg)}

\* descriptors of every shape the normalisation tells apart
WholeRows == {DescCallable("len"), DescSeq(<<Fn("len")>>), DescSeq(<<NoSrc, Fn("list")>>)}

OneField ==
    {DescString("bar"), DescSeq(<<Fld("baz")>>), DescSeq(<<Fld("bar"), Fn("sum")>>),
     DescSeq(<<Fld("bar"), Fn("min")>>), DescSeq(<<Fld("bar"), Fn("max")>>),
     DescSeq(<<Fld("bar"), Fn("len")>>)}

SeveralFields ==
    {DescSeq(<<Flds(<<"bar", "baz">>), Fn("list")>>),
     DescSeq(<<Flds(<<"bar">>), Fn("list")>>)}

\* a descriptor of three parts, and one naming a field the header lacks
Faulty ==
    {DescSeq(<<Fld("bar"), Fn("sum"), Fn("len")>>),
     DescSeq(<<Fld("nosuch"), Fn("list")>>)}

FirstOfTwo ==
    {DescCallable("len"), DescSeq(<<Fld("bar"), Fn("min")>>),
     DescSeq(<<Flds(<<"bar", "baz">>), Fn("list")>>)}

SecondOfTwo ==
    {DescSeq(<<Fld("bar"), Fn("max")>>), DescString("bar"),
     DescSeq(<<Fld("nosuch"), Fn("list")>>)}

AggMappings ==
    {<<>>}
        \cup {<<Entry("x", d)>> : d \in WholeRows \cup OneField \cup SeveralFields \cup Faulty}
        \cup {<<Entry("x", d), Entry("y", e)>> : d \in FirstOfTwo, e \in SecondOfTwo}
        \cup {<<Entry("y", e), Entry("x", d)>> : d \in FirstOfTwo, e \in SecondOfTwo}

AggLists ==
    {<<[name |-> "x", rest |-> <<Fld("bar"), Fn("sum")>>]>>,
     <<[name |-> "y", rest |-> <<Fn("len")>>], [name |-> "x", rest |-> <<Fld("bar")>>]>>,
     <<[name |-> "x", rest |-> <<Fn("len")>>], [name |-> "y", rest |-> <<Fld("bar")>>],
       [name |-> "x", rest |-> <<Fld("baz")>>]>>}

AggArgs == {AggNone} \cup {AggList(l) : l \in AggLists} \cup {AggDict(m) : m \in AggMappings}

\* the key and presorted arguments: a callable key only over a presorted
\* source
AggKeys ==
    {<<KeyField("foo"), FALSE>>, <<KeyField("foo"), TRUE>>,
     <<KeyFields(<<"foo", "bar">>), FALSE>>, <<KeyCallable, TRUE>>}

InitAgg ==
    /\ tables \in {<<t>> : t \in AggTables}
    /\ view = NoView
    /\ its = NoIters
    /\ call = NoCall
    /\ prev = <<>>

CallAggregate ==
    /\ view.kind = "none"
    /\ \E k \in AggKeys, a \in AggArgs :
          /\ view' \in aggregate(tables[1], k[1], a, NoValue, k[2])
          /\ call' = Call("aggregate", k[1], a.kind)
    /\ UNCHANGED <<tables, its, prev>>

NextAgg ==
    \/ CallAggregate
    \/ Iter(1)
    \/ NextMultiAggregate(1)

SpecAgg == InitAgg /\ [][NextAgg]_vars

---------------------------------------------------------------------------
(* Runs of the multi-aggregate view whose mapping is added to after        *)
(* construction, before and between the steps of two iterations.           *)

SetRows == {<<PyInt(1), PyInt(1), PyInt(3)>>, <<PyInt(2), PyInt(2), PyInt(3)>>}

SetTables == {<<AggHeader>> \o rows : rows \in SeqsUpTo(SetRows, MaxRowsSet)}

\* the aggregation argument at construction: None, a list of tuples, a dict
SetArgs ==
    {AggNone,
     AggList(<<[name |-> "x", rest |-> <<Fld("bar"), Fn("sum")>>]>>),
     AggDict(<<Entry("x", DescCallable("len"))>>)}

\* what __setitem__ is called with: a new name, and a known one
SetItems == {<<"y", DescCallable("len")>>, <<"x", DescString("bar")>>}

InitAggSet ==
    /\ tables \in {<<t>> : t \in SetTables}
    /\ view = NoView
    /\ its = NoIters
    /\ call = NoCall
    /\ prev = <<>>

CallAggregateThenSet ==
    /\ view.kind = "none"
    /\ \E a \in SetArgs :
          /\ view' \in aggregate(tables[1], KeyField("foo"), a, NoValue, FALSE)
          /\ call' = Call("aggregate", KeyField("foo"), a.kind)
    /\ UNCHANGED <<tables, its, prev>>

NextAggSet ==
    \/ CallAggregateThenSet
    \/ \E a \in SetItems : SetItem(a[1], a[2])
    \/ Iter(1)
    \/ Iter(2)
    \/ NextMultiAggregate(1)
    \/ NextMultiAggregate(2)

SpecAggSet == InitAggSet /\ [][NextAggSet]_vars

---------------------------------------------------------------------------
(* Runs of several iterations of one view, of each kind, whose steps       *)
(* interleave in every order.                                              *)

IterRows == {<<PyInt(1), PyInt(1), PyInt(3)>>, <<PyInt(2), PyInt(2), PyInt(3)>>,
             <<PyInt(1), PyInt(2), None>>}

IterTables == {<<ReduceHeader>> \o rows : rows \in SeqsUpTo(IterRows, MaxRowsIter)}

InitIter ==
    /\ tables \in {<<t>> : t \in IterTables}
    /\ view = NoView
    /\ its = NoIters
    /\ call = NoCall
    /\ prev = <<>>

\* one view of each class over the table
CallAnyView ==
    /\ view.kind = "none"
    /\ view' \in
          rowreduce(tables[1], KeyField("foo"), "sumbar", NoFields, FALSE)
            \cup aggregate(tables[1], KeyField("foo"), AggCallable("len"), NoValue, FALSE)
            \cup aggregate(tables[1], KeyField("foo"),
                           AggDict(<<Entry("x", DescSeq(<<Fld("bar"), Fn("sum")>>))>>),
                           NoValue, FALSE)
            \cup mergeduplicates(tables[1], KeyField("foo"), None, FALSE)
            \cup fold(tables[1], KeyField("foo"), "add", ValueField("bar"), FALSE)
    /\ call' = Call(view'.kind, KeyField("foo"), "")
    /\ UNCHANGED <<tables, its, prev>>

NextIter ==
    \/ CallAnyView
    \/ \E i \in 1..NIters : Iter(i)
    \/ \E i \in 1..NIters : NextRowReduce(i)
    \/ \E i \in 1..NIters : NextSimpleAggregate(i)
    \/ \E i \in 1..NIters : NextMultiAggregate(i)
    \/ \E i \in 1..NIters : NextMergeDuplicates(i)
    \/ \E i \in 1..NIters : NextFold(i)

SpecIter == InitIter /\ [][NextIter]_vars

---------------------------------------------------------------------------
(* Runs of the four reducers with presorted=True over tables in any order. *)

PresortedRows == {<<PyInt(a), PyInt(b), PyInt(3)>> : a \in 1..2, b \in 1..2}

PresortedTables ==
    {<<ReduceHeader>> \o rows : rows \in SeqsUpTo(PresortedRows, MaxRowsPresorted)}

InitPresorted ==
    /\ tables \in {<<t>> : t \in PresortedTables}
    /\ view = NoView
    /\ its = NoIters
    /\ call = NoCall
    /\ prev = <<>>

\* rowreduce, aggregate (callable and mapping), fold or mergeduplicates,
\* each with presorted=True
CallPresorted ==
    /\ view.kind = "none"
    /\ \E key \in {KeyField("foo"), KeyCallable} :
          /\ view' \in
                rowreduce(tables[1], key, "sumbar", NoFields, TRUE)
                  \cup aggregate(tables[1], key, AggCallable("len"), NoValue, TRUE)
                  \cup aggregate(tables[1], key,
                                 AggDict(<<Entry("x", DescSeq(<<Fld("bar"), Fn("sum")>>))>>),
                                 NoValue, TRUE)
                  \cup fold(tables[1], key, "add", ValueField("bar"), TRUE)
                  \cup (IF key.kind = "field"
                        THEN mergeduplicates(tables[1], key, None, TRUE) ELSE {})
          /\ call' = Call(view'.kind, key, "presorted")
    /\ UNCHANGED <<tables, its, prev>>

NextPresorted ==
    \/ CallPresorted
    \/ Iter(1)
    \/ NextRowReduce(1)
    \/ NextSimpleAggregate(1)
    \/ NextMultiAggregate(1)
    \/ NextMergeDuplicates(1)
    \/ NextFold(1)

SpecPresorted == InitPresorted /\ [][NextPresorted]_vars

---------------------------------------------------------------------------
(* Runs of mergeduplicates over headers whose names are unique or not.     *)

NamesHeaders == {<<"foo", "bar", "baz">>, <<"foo", "bar", "bar">>}

NamesRows == {<<PyInt(k), PyInt(a), PyInt(b)>> : k \in 1..2, a \in 1..2, b \in 1..2}

NamesTables ==
    {<<h>> \o rows : h \in NamesHeaders, rows \in SeqsUpTo(NamesRows, MaxRowsNames)}

InitNames ==
    /\ tables \in {<<t>> : t \in NamesTables}
    /\ view = NoView
    /\ its = NoIters
    /\ call = NoCall
    /\ prev = <<>>

CallMergeDuplicatesNames ==
    /\ view.kind = "none"
    /\ \E presorted \in BOOLEAN :
          /\ view' \in mergeduplicates(tables[1], KeyField("foo"), None, presorted)
          /\ call' = Call("mergeduplicates", KeyField("foo"), "names")
    /\ UNCHANGED <<tables, its, prev>>

NextNames ==
    \/ CallMergeDuplicatesNames
    \/ Iter(1)
    \/ NextMergeDuplicates(1)

SpecNames == InitNames /\ [][NextNames]_vars

---------------------------------------------------------------------------
(* What the claims speak of, stated on the input table itself.             *)

KeysOf(table, key) == {getkey(Hdr(table), key, r) : r \in Range(Data(table))}

NoRepeat(q) == \A a, b \in 1..Len(q) : q[a] = q[b] => a = b

\* the positions at which a new run of equal keys starts
RunStarts(table, key) ==
    {i \in 1..Len(Data(table)) :
        i = 1 \/ getkey(Hdr(table), key, Data(table)[i])
                   # getkey(Hdr(table), key, Data(table)[i - 1])}

\* the rows of the n-th run of equal consecutive keys
NthRun(table, key, n) ==
    LET B == RunStarts(table, key)
        from == CHOOSE b \in B : Cardinality({c \in B : c < b}) = n - 1
        later == {c \in B : c > from}
        to == IF later = {} THEN Len(Data(table))
              ELSE (CHOOSE c \in later : \A d \in later : c <= d) - 1
    IN SubSeq(Data(table), from, to)

\* f(...f(f(x1, x2), x3)..., xn), by recursion on the last item
RECURSIVE LeftFold(_, _)
LeftFold(f, q) ==
    IF Len(q) = 1 THEN q[1]
    ELSE LET a == LeftFold(f, SubSeq(q, 1, Len(q) - 1))
         IN IF isRaised(a) THEN Raised ELSE apply(f, a, q[Len(q)])

\* the values fold extracts from a group of full rows
FoldValues(hdr, value, rows) ==
    [j \in 1..Len(rows) |->
        IF value.kind = "none" THEN Tuple(rows[j])
        ELSE rows[j][Index(hdr, value.names[1])]]

---------------------------------------------------------------------------
(* C1: rowreduce with presorted=False yields, after the header, one row    *)
(* per distinct key value of the input table, whatever the order of its    *)
(* rows: no key is passed to the reducer twice, every yielded row answers  *)
(* one reducer call, and a finished iteration has passed every distinct    *)
(* key exactly once.                                                       *)
C1_OneRowPerDistinctKey ==
    (view.kind = "rowreduce" /\ ~view.presorted /\ its[1].pc \in {"run", "done"}) =>
        /\ NoRepeat(its[1].calls)
        /\ Len(its[1].out) = 1 + Len(its[1].calls)
        /\ Range(its[1].calls) \subseteq KeysOf(tables[1], view.key)
        /\ its[1].pc = "done" =>
              /\ Range(its[1].calls) = KeysOf(tables[1], view.key)
              /\ Len(its[1].out) = 1 + Cardinality(KeysOf(tables[1], view.key))

\* a finished rowreduce over three rows whose first and last share a key
\* that the middle row does not have
C1_Witness ==
    /\ call.fn = "rowreduce" /\ ~view.presorted /\ its[1].pc = "done"
    /\ Len(Data(tables[1])) = 3
    /\ getkey(ReduceHeader, view.key, Data(tables[1])[1])
         = getkey(ReduceHeader, view.key, Data(tables[1])[3])
    /\ getkey(ReduceHeader, view.key, Data(tables[1])[1])
         # getkey(ReduceHeader, view.key, Data(tables[1])[2])
    /\ Len(its[1].out) = 3

(* C7: fold yields the header ('key', 'value') and then, for the n-th      *)
(* group it receives, the pair (key, v) with v the left-to-right reduction *)
(* of the group's values without initial value; a group of one item yields *)
(* the item itself, and f is called once per item after the first of each  *)
(* group, so never for a group of one.                                     *)
C7_FoldLeftToRight ==
    (view.kind = "fold" /\ its[1].pc \in {"run", "done", "error"}) =>
        LET out == its[1].out
            grp(n) == NthRun(view.source, view.key, n)
            vals(n) == FoldValues(Hdr(view.source), view.value, grp(n))
            ngroups == Cardinality(RunStarts(view.source, view.key))
        IN /\ out[1] = <<"key", "value">>
           /\ \A n \in 1..(Len(out) - 1) :
                 /\ out[n + 1] = <<getkey(Hdr(view.source), view.key, grp(n)[1]),
                                   LeftFold(view.f, vals(n))>>
                 /\ Len(grp(n)) = 1 => out[n + 1][2] = vals(n)[1]
           /\ its[1].pc = "done" =>
                 /\ Len(out) = 1 + ngroups
                 /\ its[1].fcalls = Len(Data(view.source)) - ngroups
           /\ its[1].pc = "error" =>
                 /\ Len(out) <= ngroups
                 /\ isRaised(LeftFold(view.f, vals(Len(out))))

\* a finished fold with a function that is neither commutative nor
\* associative, over a group of three and no other
C7_Witness ==
    /\ view.kind = "fold" /\ view.f = "sub" /\ view.value = ValueField("bar")
    /\ its[1].pc = "done"
    /\ Len(its[1].out) = 2
    /\ Len(Data(tables[1])) = 3
    /\ Data(tables[1])[1][2] # Data(tables[1])[3][2]
    /\ its[1].fcalls = 2

(* C8: groupselectmin and groupselectmax return one row per distinct key,  *)
(* also when rows of a group tie on the value, and every returned row is   *)
(* an input row of its key.                                                *)
C8_SelectOnePerKey ==
    (call.fn \in {"groupselectmin", "groupselectmax"} /\ its[1].pc = "done") =>
        LET out == its[1].out
            k(r) == getkey(Hdr(tables[1]), call.key, r)
        IN /\ out[1] = Hdr(tables[1])
           /\ Len(out) = 1 + Cardinality(KeysOf(tables[1], call.key))
           /\ \A n \in 2..Len(out) : out[n] \in Range(Data(tables[1]))
           /\ \A a, b \in 2..Len(out) : k(out[a]) = k(out[b]) => a = b
           /\ {k(out[n]) : n \in 2..Len(out)} = KeysOf(tables[1], call.key)

\* a finished selection where two different rows of one key tie on the
\* value field, with a row of another key between them
C8_Witness ==
    /\ call.fn \in {"groupselectmin", "groupselectmax"} /\ its[1].pc = "done"
    /\ Len(Data(tables[1])) = 3
    /\ LET r == Data(tables[1])
       IN /\ r[1][1] = r[3][1] /\ r[1][2] = r[3][2] /\ r[1] # r[3]
          /\ r[2][1] # r[1][1] /\ r[2][2] # r[1][2]
    /\ Len(its[1].out) = 3

---------------------------------------------------------------------------
\* the positions of the header's non-key fields, in header order
ValuePositions(hdr, key) ==
    SelectSeq([p \in 1..Len(hdr) |-> p], LAMBDA p : hdr[p] \notin Range(key.names))

\* the distinct values the rows hold at position p, short rows and the
\* missing value left out
DistinctAt(rows, p, missing) ==
    {r[p] : r \in {r \in Range(rows) : Len(r) >= p}} \ {missing}

(* C2: for every group and every non-key field, the cell mergeduplicates   *)
(* emits is decided by the set D of distinct values the group's rows hold  *)
(* at that field, short rows and missing values ignored: the one member    *)
(* when D has one, the missing value when D is empty, a Conflict of        *)
(* exactly D otherwise.                                                    *)
C2_MergedCells ==
    (view.kind = "mergeduplicates" /\ its[1].pc \in {"run", "done"}) =>
        LET out == its[1].out
            valpos == ValuePositions(Hdr(view.source), view.key)
            nkey == Len(view.key.names)
        IN \A n \in 1..(Len(out) - 1) :
              /\ Len(out[n + 1]) = nkey + Len(valpos)
              /\ \A j \in 1..Len(valpos) :
                    LET D == DistinctAt(NthRun(view.source, view.key, n), valpos[j],
                                        view.missing)
                        cell == out[n + 1][nkey + j]
                    IN /\ Cardinality(D) = 1 => cell \in D
                       /\ D = {} => cell = view.missing
                       /\ Cardinality(D) > 1 => cell = Conflict(D)

\* a finished merge of a group holding a short row, a row with a missing
\* value and rows that differ: 'bar' conflicts, 'baz' keeps its one value
C2_Witness ==
    /\ call.fn = "mergeduplicates" /\ view.missing = None /\ its[1].pc = "done"
    /\ view.key = KeyField("foo")
    /\ <<PyInt(1), PyInt(1)>> \in Range(Data(tables[1]))
    /\ <<PyInt(1), PyInt(1), None>> \in Range(Data(tables[1]))
    /\ its[1].out[2] = <<PyInt(1), Conflict({PyInt(1), PyInt(2)}), PyInt(2)>>

(* C3: mergeduplicates is idempotent: merging the finished output of       *)
(* mergeduplicates again, with the same key, missing value and presorted   *)
(* flag, yields the same header and the same rows, Conflict cells          *)
(* included.                                                               *)
C3_Idempotent ==
    (call.fn = "mergeduplicates again" /\ its[1].pc = "done") => its[1].out = prev

\* a finished second merge of an output of two rows that holds a Conflict
\* and came from an input that was not sorted
C3_Witness ==
    /\ call.fn = "mergeduplicates again" /\ its[1].pc = "done"
    /\ Len(prev) = 3
    /\ \E n \in 2..3 : \E j \in 1..Len(prev[n]) : isConflict(prev[n][j])
    /\ ~view.presorted
    /\ Len(Data(tables[1])) = 3
    /\ Data(tables[1])[1][1] = PyInt(2) /\ Data(tables[1])[2][1] = PyInt(1)

\* a Conflict as the library may build it: two members or more, none of
\* them the missing value
WellFormedConflict(c, missing) == Cardinality(c.s) >= 2 /\ missing \notin c.s

(* C4: every Conflict found in an output of mergeduplicates or merge holds *)
(* at least two distinct members, none of them the missing value; so does  *)
(* a Conflict that is itself a member of one.                              *)
C4_NoSmallConflict ==
    \A n \in 2..Len(its[1].out) : \A j \in 1..Len(its[1].out[n]) :
        LET cell == its[1].out[n][j]
        IN isConflict(cell) =>
              /\ WellFormedConflict(cell, view.missing)
              /\ \A m \in cell.s : isConflict(m) => WellFormedConflict(m, view.missing)

\* an output row holding a Conflict, from a group in which one row holds
\* the missing value at that field
C4_Witness ==
    /\ call.fn = "mergeduplicates" /\ view.missing = PyInt(1)
    /\ view.key = KeyField("foo")
    /\ Len(its[1].out) >= 2
    /\ isConflict(its[1].out[2][2])
    /\ \E r \in Range(Data(tables[1])) : r[1] = its[1].out[2][1] /\ r[2] = PyInt(1)

\* the non-missing values table t holds at field f in its rows of key k
HeldBy(t, key, k, f) ==
    IF Index(Hdr(t), f) = 0 THEN {}
    ELSE {r[Index(Hdr(t), f)] :
             r \in {r \in Range(Data(t)) : getkey(Hdr(t), key, r) = k}} \ {None}

(* C9: merge applies mergeduplicates, presorted, to the key-ordered        *)
(* merge-sort of the tables: one row per key of any table; where the       *)
(* tables hold different non-missing values at a field under one key the   *)
(* cell is a Conflict holding them, and where a single non-missing value   *)
(* is held the cell is that value.                                         *)
C9_MergeConflicts ==
    (call.fn = "merge" /\ its[1].pc = "done") =>
        LET out == its[1].out
            keys == KeysOf(tables[1], call.key) \cup KeysOf(tables[2], call.key)
        IN /\ view.presorted /\ view.source \in mergesort(tables, call.key)
           /\ Len(out) = 1 + Cardinality(keys)
           /\ {out[n][1] : n \in 2..Len(out)} = keys
           /\ \A n \in 2..Len(out) : \A j \in 2..Len(out[1]) :
                 LET V1 == HeldBy(tables[1], call.key, out[n][1], out[1][j])
                     V2 == HeldBy(tables[2], call.key, out[n][1], out[1][j])
                     cell == out[n][j]
                 IN /\ \A a \in V1, b \in V2 :
                          a # b => isConflict(cell) /\ {a, b} \subseteq cell.s
                    /\ Cardinality(V1 \cup V2) = 1 => cell \in V1 \cup V2
                    /\ V1 \cup V2 = {} => cell = None
                    /\ isConflict(cell) => cell.s = V1 \cup V2

\* a finished merge of two tables with the same fields: under one key they
\* hold 1 and 2, under the other only the first table holds a value
C9_Witness ==
    /\ call.fn = "merge" /\ its[1].pc = "done"
    /\ Hdr(tables[2]) = <<"foo", "bar">>
    /\ Len(its[1].out) = 3
    /\ its[1].out[2] = <<PyInt(1), Conflict({PyInt(1), PyInt(2)})>>
    /\ its[1].out[3] = <<PyInt(2), PyInt(1)>>
    /\ HeldBy(tables[1], call.key, PyInt(1), "bar") = {PyInt(1)}
    /\ HeldBy(tables[2], call.key, PyInt(1), "bar") = {PyInt(2)}
    /\ HeldBy(tables[2], call.key, PyInt(2), "bar") = {}
    /\ KeysOf(tables[2], call.key) = {PyInt(1), PyInt(2)}

---------------------------------------------------------------------------
\* what a descriptor asks for: the source (None, a field, a tuple of
\* fields) and the function; the default function is list
Described(desc) ==
    CASE desc.shape = "callable" -> [src |-> NoSrc, fn |-> desc.items[1].names[1]]
      [] desc.shape = "string" -> [src |-> desc.items[1], fn |-> "list"]
      [] Len(desc.items) = 1 /\ desc.items[1].t = "fn" ->
            [src |-> NoSrc, fn |-> desc.items[1].names[1]]
      [] Len(desc.items) = 1 -> [src |-> desc.items[1], fn |-> "list"]
      [] OTHER -> [src |-> desc.items[1], fn |-> desc.items[2].names[1]]

\* what the function is applied to: the group's rows, its values of the
\* named field, or its tuples of the named fields
Projected(hdr, rows, src) ==
    [r \in 1..Len(rows) |->
        CASE src.t = "none" -> Tuple(rows[r])
          [] src.t = "fld" -> rows[r][Index(hdr, src.names[1])]
          [] OTHER -> Tuple([j \in 1..Len(src.names) |-> rows[r][Index(hdr, src.names[j])]])]

\* the output row of the n-th group under the mapping
AggregatedRow(source, key, mapping, n) ==
    LET grp == NthRun(source, key, n)
        k == getkey(Hdr(source), key, grp[1])
    IN (IF key.kind = "fields" THEN k.q ELSE <<k>>)
       \o [j \in 1..Len(mapping) |->
              aggcall(Described(mapping[j].desc).fn,
                      Projected(Hdr(source), grp, Described(mapping[j].desc).src), FALSE)]

AggregatedHeader(key, mapping) ==
    (IF key.kind = "callable" THEN <<"key">> ELSE key.names)
    \o [j \in 1..Len(mapping) |-> mapping[j].name]

(* C5: the multi-aggregate header is the key field name(s), or 'key' for   *)
(* a callable key, followed by the aggregation names in declaration order; *)
(* every row yielded is the key value(s) followed, in that order, by each  *)
(* function applied to the group's rows, to its values of the named field, *)
(* or to its tuples of the named fields, and has the header's length.      *)
C5_MultiAggregateRows ==
    (view.kind = "multiaggregate" /\ its[1].pc \in {"run", "done", "error"}
        /\ Len(its[1].out) >= 1) =>
        LET out == its[1].out
        IN /\ out[1] = AggregatedHeader(view.key, view.aggregation)
           /\ \A n \in 1..(Len(out) - 1) :
                 /\ out[n + 1] = AggregatedRow(view.source, view.key, view.aggregation, n)
                 /\ Len(out[n + 1]) = Len(out[1])

\* no descriptor names its source fields by a tuple of one name
NoTupleOfOne(mapping) ==
    \A j \in 1..Len(mapping) :
        \A p \in 1..Len(mapping[j].desc.items) :
            mapping[j].desc.items[p].t = "flds" => Len(mapping[j].desc.items[p].names) # 1

\* C5 holds of every mapping but those with a tuple of one source field
C5_ExceptTupleOfOne == NoTupleOfOne(view.aggregation) => C5_MultiAggregateRows

---------------------------------------------------------------------------
(* C6: an aggregation added by view[name] = descriptor takes effect on     *)
(* every iteration started afterwards: the header such an iteration yields *)
(* holds, after the key, every name __setitem__ was called with before     *)
(* iter(), and every row it yields has the header's length; whatever the   *)
(* aggregation argument the view was built with.                           *)
C6_SetItemTakesEffect ==
    \A i \in 1..NIters :
        (view.kind = "multiaggregate" /\ its[i].pc \in {"run", "done"}) =>
            LET out == its[i].out
            IN /\ out[1][1] = "foo"
               /\ Range(its[i].atiter) \subseteq Range(Tail(out[1]))
               /\ \A n \in 2..Len(out) : Len(out[n]) = Len(out[1])

\* a finished iteration, started after 'y' was added to a view built with
\* aggregation None: header and rows hold the column
C6_Witness ==
    /\ call.value = "None"
    /\ its[1].pc = "done"
    /\ its[1].atiter = <<"y">>
    /\ its[1].out = << <<"foo", "y">>, <<PyInt(1), PyInt(1)>>, <<PyInt(2), PyInt(1)>> >>

---------------------------------------------------------------------------
IsPrefix(p, q) == Len(p) <= Len(q) /\ \A n \in 1..Len(p) : p[n] = q[n]

RECURSIVE Uninterrupted(_, _)
\* a generator of view v resumed until it ends, no other in between
Uninterrupted(v, st) ==
    IF st.pc \in {"done", "error"} THEN st ELSE Uninterrupted(v, resume(v, st))

(* C10: over one view and a source that yields the same rows each time,    *)
(* two or more iterations whose steps interleave in any order each yield   *)
(* what one iteration run alone yields: what an iteration has yielded so   *)
(* far is the start of that sequence, whatever the others have done, and   *)
(* an iteration that has ended has yielded or raised the same.             *)
C10_IndependentIterations ==
    view.kind # "none" =>
        LET alone == Uninterrupted(view, Created)
        IN \A i \in 1..NIters :
              /\ its[i].pc # "idle" => IsPrefix(its[i].out, alone.out)
              /\ its[i].pc \in {"done", "error"} =>
                    its[i].pc = alone.pc /\ its[i].out = alone.out

\* the second iteration of a mergeduplicates view has ended while the first,
\* started before it, has yielded the header and one row of three items
C10_Witness ==
    /\ view.kind = "mergeduplicates"
    /\ its[2].pc = "done" /\ Len(its[2].out) = 3
    /\ its[1].pc = "run" /\ Len(its[1].out) = 2

---------------------------------------------------------------------------
(* C11: with presorted=True rowreduce, aggregate, fold and mergeduplicates *)
(* apply no sort and yield, after the header, one row per maximal run of   *)
(* consecutive rows of equal key of the table as given, in the order the   *)
(* runs are met: the n-th row carries the key of the n-th run, and a       *)
(* finished iteration has yielded as many rows as the table has runs, so   *)
(* a key met in k runs apart from each other has k rows.                   *)
C11_OneRowPerRun ==
    (call.value = "presorted" /\ its[1].pc \in {"run", "done", "error"}) =>
        LET out == its[1].out
            t == tables[1]
        IN /\ view.source = t
           /\ \A n \in 1..(Len(out) - 1) :
                 out[n + 1][1] = getkey(Hdr(t), view.key, NthRun(t, view.key, n)[1])
           /\ its[1].pc = "done" =>
                 Len(out) = 1 + Cardinality(RunStarts(t, view.key))

\* a finished fold over three rows of keys 1, 2, 1: three rows, two of
\* them of key 1
C11_Witness ==
    /\ call.value = "presorted" /\ view.kind = "fold" /\ its[1].pc = "done"
    /\ Len(Data(tables[1])) = 3
    /\ Data(tables[1])[1][1] = PyInt(1)
    /\ Data(tables[1])[2][1] = PyInt(2)
    /\ Data(tables[1])[3][1] = PyInt(1)
    /\ Len(its[1].out) = 4
    /\ its[1].out[2][1] = PyInt(1) /\ its[1].out[4][1] = PyInt(1)

---------------------------------------------------------------------------
\* the data rows of the first n runs of equal consecutive keys
RowsOfRuns(table, key, n) ==
    LET B == RunStarts(table, key)
        later == {b \in B : Cardinality({c \in B : c < b}) = n}
    IN IF later = {} THEN Len(Data(table)) ELSE (CHOOSE b \in later : TRUE) - 1

(* C12: a multi-aggregate or mergeduplicates view over a presorted source  *)
(* reads on demand and holds one group at a time: a generator not yet      *)
(* resumed has read nothing, one that has yielded the header alone has     *)
(* read no data row, and one that has just yielded its n-th data row has   *)
(* read the rows of the first n groups and at most one row more, the first *)
(* of group n+1, and holds the rows of group n and no others.              *)
C12_OneGroupAtATime ==
    (call.value = "presorted" /\ view.kind \in {"multiaggregate", "mergeduplicates"}) =>
        LET st == its[1]
            n == Len(st.out) - 1
            t == tables[1]
        IN /\ st.pc \in {"idle", "new"} => st.nread = 0 /\ st.held = <<>>
           /\ (st.pc = "run" /\ n = 0) => st.nread = 1 /\ st.held = <<>>
           /\ (st.pc = "run" /\ n >= 1) =>
                 /\ st.nread - 1 >= RowsOfRuns(t, view.key, n)
                 /\ st.nread - 1 <= RowsOfRuns(t, view.key, n) + 1
                 /\ st.nread - 1 <= Len(Data(t))
                 /\ st.held = NthRun(t, view.key, n)

\* the first data row of a mergeduplicates over rows of keys 1, 2, 1 has
\* been yielded: the header and two of the three rows are read, one is held
C12_Witness ==
    /\ call.value = "presorted" /\ view.kind = "mergeduplicates"
    /\ Len(Data(tables[1])) = 3
    /\ Data(tables[1])[1][1] = PyInt(1)
    /\ Data(tables[1])[2][1] = PyInt(2)
    /\ Data(tables[1])[3][1] = PyInt(1)
    /\ its[1].pc = "run" /\ Len(its[1].out) = 2
    /\ its[1].nread = 3 /\ its[1].held = <<Data(tables[1])[1]>>

---------------------------------------------------------------------------
\* every descriptor of the mapping has one of the accepted shapes
WellShaped(mapping) ==
    \A j \in 1..Len(mapping) :
        mapping[j].desc.shape = "seq" => Len(mapping[j].desc.items) \in {1, 2}

\* some descriptor of the mapping names a source field the header lacks
NamesAbsentField(mapping, hdr) ==
    \E j \in 1..Len(mapping) :
        LET src == Described(mapping[j].desc).src
        IN src.t # "none" /\ \E f \in Range(src.names) : f \notin Range(hdr)

(* C13: a multi-aggregate view whose mapping names a source field absent   *)
(* from the header is built without error and yields its header without    *)
(* error; the error is raised when the first group is aggregated, so the   *)
(* iteration never yields a data row, and over a source of at least one    *)
(* data row it ends in the error, after the header, and never normally.    *)
C13_AbsentFieldRaisesAtFirstGroup ==
    (call.fn = "aggregate" /\ view.kind = "multiaggregate"
        /\ WellShaped(view.aggregation)
        /\ NamesAbsentField(view.aggregation, Hdr(view.source))) =>
        LET st == its[1]
        IN /\ Len(st.out) <= 1
           /\ st.pc = "run" =>
                 st.out = <<AggregatedHeader(view.key, view.aggregation)>>
           /\ st.pc = "error" => Len(st.out) = 1 /\ Len(Data(view.source)) >= 1
           /\ st.pc = "done" => Len(Data(view.source)) = 0

\* the iteration of a view with the aggregations x over 'bar' and y over
\* a field the header lacks has yielded its header and then raised
C13_Witness ==
    /\ view.kind = "multiaggregate"
    /\ Len(view.aggregation) = 2
    /\ ~NamesAbsentField(<<view.aggregation[1]>>, Hdr(view.source))
    /\ NamesAbsentField(<<view.aggregation[2]>>, Hdr(view.source))
    /\ Len(Data(view.source)) = 2
    /\ its[1].pc = "error"
    /\ Len(its[1].out) = 1

---------------------------------------------------------------------------
\* header and rows yielded so far are those of the mapping, over the
\* view's source and key
YieldedUnder(st, mapping) ==
    /\ st.out[1] = AggregatedHeader(view.key, mapping)
    /\ \A n \in 1..(Len(st.out) - 1) :
          /\ st.out[n + 1] = AggregatedRow(view.source, view.key, mapping, n)
          /\ Len(st.out[n + 1]) = Len(st.out[1])

(* C14 as stated, an iteration starting when iter() is called: under any   *)
(* interleaving of __setitem__ calls with the steps of an iteration, the   *)
(* header and every row the iteration yields are those of the mapping in   *)
(* force when iter() was called.                                           *)
C14_MappingAtIter ==
    \A i \in 1..NIters :
        (view.kind = "multiaggregate" /\ its[i].pc \in {"run", "done"}) =>
            YieldedUnder(its[i], its[i].mapiter)

(* C14, amended: under any interleaving of __setitem__ calls with the      *)
(* steps of an iteration, the header and every row the iteration yields    *)
(* are those of the mapping in force when next() was first called on it:   *)
(* every row has the header's length and is computed from that mapping,    *)
(* a write made between iter() and the first next() is taken up, and a     *)
(* write made after the first next() is not.                               *)
C14_MappingAtFirstNext ==
    \A i \in 1..NIters :
        (view.kind = "multiaggregate" /\ its[i].pc \in {"run", "done"}) =>
            YieldedUnder(its[i], its[i].mapfirst)

\* the first iteration has ended under a mapping of one aggregation though
\* 'y' has been added since its first next(); the second, started after the
\* write, has ended with the column
C14_Witness ==
    /\ call.value = "dict"
    /\ its[1].pc = "done" /\ its[2].pc = "done"
    /\ Len(its[1].out) = 3 /\ Len(its[2].out) = 3
    /\ Len(its[1].mapfirst) = 1 /\ Len(view.aggregation) = 2
    /\ its[1].mapfirst # its[2].mapfirst
    /\ its[2].mapfirst = view.aggregation
    /\ Len(its[1].out[3]) = 2 /\ Len(its[2].out[3]) = 3

---------------------------------------------------------------------------
\* the table sorted by the key with rows of equal key left in the order
\* they have in the table
StableSort(table, key) ==
    LET rows == Data(table)
        n == Len(rows)
        k(i) == getkey(Hdr(table), key, rows[i])
        p == CHOOSE q \in Perms(n) :
                \A i, j \in 1..n :
                    i < j => \/ LessVal(k(q[i]), k(q[j]))
                             \/ (k(q[i]) = k(q[j]) /\ q[i] < q[j])
    IN <<Hdr(table)>> \o [i \in 1..n |-> rows[p[i]]]

\* every row yielded holds, in the value field, the least (the greatest)
\* value of the rows of its key in the table given
YieldsExtremes ==
    LET t == tables[1]
        col == Index(Hdr(t), call.value)
        k(r) == getkey(Hdr(t), call.key, r)
    IN \A n \in 2..Len(its[1].out) :
          \A r \in Range(Data(t)) :
              k(r) = k(its[1].out[n]) =>
                  IF call.fn = "groupselectmin"
                  THEN ~LessVal(r[col], its[1].out[n][col])
                  ELSE ~LessVal(its[1].out[n][col], r[col])

---------------------------------------------------------------------------
(* C16: the header mergeduplicates yields is the key field(s) followed by  *)
(* every header field that is no key field, in header order; every data    *)
(* row has the header's length; and the cell of the j-th non-key field is  *)
(* decided by the values the group's rows hold at that field's own column, *)
(* whether the header's names are unique or not.                           *)
C16_OwnColumn ==
    (view.kind = "mergeduplicates" /\ its[1].pc \in {"run", "done"}) =>
        LET out == its[1].out
            hdr == Hdr(view.source)
            valpos == ValuePositions(hdr, view.key)
            nkey == Len(view.key.names)
        IN /\ out[1] = view.key.names \o [j \in 1..Len(valpos) |-> hdr[valpos[j]]]
           /\ \A n \in 1..(Len(out) - 1) :
                 /\ Len(out[n + 1]) = Len(out[1])
                 /\ \A j \in 1..Len(valpos) :
                       LET D == DistinctAt(NthRun(view.source, view.key, n), valpos[j],
                                           view.missing)
                           cell == out[n + 1][nkey + j]
                       IN /\ Cardinality(D) = 1 => cell \in D
                          /\ D = {} => cell = view.missing
                          /\ Cardinality(D) > 1 => cell = Conflict(D)

\* the same, of headers whose names are unique
C16_WhenNamesUnique == NoRepeat(Hdr(tables[1])) => C16_OwnColumn

====
